---- MODULE Spec2Model ----
(***************************************************************************)
(* Model of tweetCollector.py: get_user_tweets mirrors one Twitter user    *)
(* timeline into a MongoDB collection, driving the generator               *)
(* retrieve_user_tweet (which sleeps and re-creates its tweepy cursor on   *)
(* RateLimitError / TweepError) and writing every tweet through            *)
(* MongoServer.write_doc_to_collection (which resets the client and        *)
(* recurses on NetworkTimeout / ConnectionFailure).  One                   *)
(* DataRetrievalThread per user name runs get_user_tweets; all threads     *)
(* share the tweepy API handle and the MongoServer instance.               *)
(*                                                                         *)
(* Tweepy, the Twitter endpoint and pymongo are not part of the            *)
(* repository.  They are modelled by what the source relies on:            *)
(*  - user_timeline lists a user's tweets newest first, those with an id   *)
(*    greater than since_id; a since_id that is not an id (None, or an     *)
(*    object that is no number) bounds nothing.  The request may also be   *)
(*    answered by an error, which Next_Error covers;                       *)
(*  - max_id: the comment at line 156 of the source says it selects the    *)
(*    tweets older than max_id, the endpoint reference the header cites    *)
(*    (line 28) says older than or equal.  The source does not decide it,  *)
(*    so max_id_inclusive is chosen in Init and never changes;             *)
(*  - a MongoClient used after close() either reopens by itself or raises  *)
(*    InvalidOperation, depending on the driver version: both outcomes     *)
(*    are allowed.                                                         *)
(***************************************************************************)
EXTENDS Integers, Sequences, FiniteSets, TLC

\* ------------------------------------------------------------------ bounds
MaxID == 3            \* tweet ids are 1..MaxID
MaxPauses == 2        \* provider errors (rate limit / tweepy error) the provider may raise
MaxStoreFaults == 1   \* transient store failures (NetworkTimeout / ConnectionFailure)
MaxFatal == 1         \* non-transient store errors
MaxRuns == 2          \* executions of the script

Units == {"abc", "def"}        \* candidate_usernames: one thread and one collection each
IDs == 1..MaxID
None == 0                      \* Python None, and the '' of tweet before the first item
CursorObject == -1             \* a pymongo Cursor object: a value that is no tweet id

VARIABLES
    provider,          \* provider[u]: the ids on u's timeline at the provider
    max_id_inclusive,  \* whether the provider's max_id bound includes max_id itself
    store,             \* store[c]: the documents of collection c, in insertion order
    mongo_client,      \* MongoServer.mongo_client: the current client (a generation number)
    closed,            \* the clients close() was called on
    pc,                \* pc[u]: where thread u stands
    latest_tweet_id,   \* get_user_tweets: latest_tweet_id
    since_tweet_id,    \* retrieve_user_tweet: parameter since_tweet_id
    cursor,            \* retrieve_user_tweet: cursor (its bounds and position)
    tweet,             \* retrieve_user_tweet: tweet (None for '')
    mongo_col,         \* write_doc_to_collection: the client mongo_col was taken from
    json_data,         \* write_doc_to_collection: json_data
    store0,            \* store0[u]: u's collection as get_user_tweets found it
    yielded,           \* ids the generator yielded in this run, in order
    written,           \* ids inserted by this run, in order
    requests,          \* the bounds of every tweepy cursor created in this run
    pauses,            \* provider errors met in this run
    nfail,             \* transient store failures met by this run's writes
    nreset,            \* reset_client calls completed by this run's writes
    err,               \* the exception that ended the thread, "none" otherwise
    resume0,           \* resume0[u]: the greatest id stored when the script first ran
    aborted,           \* aborted[u]: an earlier execution ended u's run part-way
    rate,              \* provider errors the environment may still raise
    faults,            \* transient store failures the environment may still raise
    fatals,            \* non-transient store errors the environment may still raise
    run                \* number of the current execution of the script

locals == <<pc, latest_tweet_id, since_tweet_id, cursor, tweet, mongo_col, json_data>>
history == <<store0, yielded, written, requests, pauses, nfail, nreset, err, resume0,
            aborted>>
budgets == <<rate, faults, fatals>>
vars == <<provider, max_id_inclusive, store, mongo_client, closed, locals, history,
          budgets, run>>

\* ----------------------------------------------------------------- helpers
Max(S) == CHOOSE x \in S : \A y \in S : y <= x

RECURSIVE Descending(_)
\* the ids of S as a sequence, greatest first
Descending(S) == IF S = {} THEN <<>> ELSE <<Max(S)>> \o Descending(S \ {Max(S)})

Range(s) == {s[k] : k \in 1..Len(s)}

\* the document of tweet i of user u: tweet._json, reduced to the two fields
\* the program reads
Doc(u, i) == [id |-> i, screen_name |-> u]

Ids(col) == {col[k].id : k \in 1..Len(col)}

\* --------------------------------------------------------------- the store
RECURSIVE Ascending(_)
\* the ids of S as a sequence, least first (used by the faulty variant below)
Ascending(S) == IF S = {} THEN <<>> ELSE Ascending(S \ {Max(S)}) \o <<Max(S)>>

\* faulty variant: the sort direction is pymongo.ASCENDING
find_docs_ascending(col, screen_name, doc_limit) ==
    LET match == {k \in 1..Len(col) : col[k].screen_name = screen_name}
        sorted == Ascending({col[k].id : k \in match})
        n == IF doc_limit = 0 \/ doc_limit > Len(sorted) THEN Len(sorted) ELSE doc_limit
    IN  SubSeq(sorted, 1, n)

\* MongoServer.find_docs as get_user_tweets calls it: filter on
\* user.screen_name, projection of id, sort by id descending, limit doc_limit
find_docs(col, screen_name, doc_limit) ==
    LET match == {k \in 1..Len(col) : col[k].screen_name = screen_name}
        sorted == Descending({col[k].id : k \in match})
        n == IF doc_limit = 0 \/ doc_limit > Len(sorted) THEN Len(sorted) ELSE doc_limit
    IN  SubSeq(sorted, 1, n)

\* for doc in latest_tweet_doc: latest_tweet_id = doc["id"]
LastId(docs) == IF Len(docs) = 0 THEN None ELSE docs[Len(docs)]

\* the argument get_user_tweets passes as since_tweet_id: latest_tweet_doc,
\* the pymongo cursor, not latest_tweet_id
SinceArgument(id, doc_cursor) == doc_cursor

\* ------------------------------------------------------------ the provider
\* faulty variant: since_id itself is delivered too
Lower_inclusive(since_id) == IF since_id \in IDs THEN since_id - 1 ELSE 0

\* the lower bound the provider applies for a since_id
Lower(since_id) == IF since_id \in IDs THEN since_id ELSE 0

UpperOK(i, max_id) ==
    \/ max_id = None
    \/ i < max_id
    \/ max_id_inclusive /\ i = max_id

\* faulty variant: the cursor steps over the item that follows the one it delivered
Remaining_skip(u, c) ==
    {i \in provider[u] : /\ i > Lower(c.since_id)
                         /\ UpperOK(i, c.max_id)
                         /\ (c.pos = None \/ i < c.pos - 1)}

\* the items a tweepy cursor c over u's timeline has still to deliver
Remaining(u, c) ==
    {i \in provider[u] : /\ i > Lower(c.since_id)
                         /\ UpperOK(i, c.max_id)
                         /\ (c.pos = None \/ i < c.pos)}

\* tweepy.Cursor(api.user_timeline, id=user_id, max_id=..., since_id=...).items()
NewCursor(since_id, max_id) == [since_id |-> since_id, max_id |-> max_id, pos |-> None]

\* faulty variant: a fresh cursor is created whether or not a tweet was yielded
ResumeCursor_always(u) == NewCursor(since_tweet_id[u], tweet[u])

\* faulty variant: the two bounds are exchanged
ResumeCursor_swapped(u) ==
    IF tweet[u] # None
    THEN [since_id |-> tweet[u], max_id |-> since_tweet_id[u], pos |-> None]
    ELSE cursor[u]

\* the cursor the generator continues with after an error (lines 148-151, 157-160)
ResumeCursor(u) ==
    IF tweet[u] # None
    THEN NewCursor(since_tweet_id[u], tweet[u])
    ELSE cursor[u]

\* -------------------------------------------------------------------- Init
\* the timelines: the newest n tweets of a user, n = 0..MaxID
Timelines == {1..n : n \in 0..MaxID}

\* a collection an earlier run left: the timeline's tweets up to some id,
\* each stored once
InitialCollection(u, feed, m) ==
    LET ids == Descending({i \in feed : i <= m})
    IN  [k \in 1..Len(ids) |-> Doc(u, ids[k])]

\* the script is started for two users: "abc" with any of the timelines and
\* any earlier collection, "def" with one tweet and nothing stored yet
Init ==
    /\ provider \in [Units -> Timelines]
    /\ provider["def"] = {1}
    /\ max_id_inclusive \in BOOLEAN
    /\ \E m \in [Units -> 0..MaxID] :
          /\ m["def"] = 0
          /\ store = [u \in Units |-> InitialCollection(u, provider[u], m[u])]
    /\ mongo_client = 1
    /\ closed = {}
    /\ pc = [u \in Units |-> "start"]
    /\ latest_tweet_id = [u \in Units |-> None]
    /\ since_tweet_id = [u \in Units |-> None]
    /\ cursor = [u \in Units |-> NewCursor(None, None)]
    /\ tweet = [u \in Units |-> None]
    /\ mongo_col = [u \in Units |-> 0]
    /\ json_data = [u \in Units |-> Doc(u, None)]
    /\ store0 = store
    /\ yielded = [u \in Units |-> <<>>]
    /\ written = [u \in Units |-> <<>>]
    /\ requests = [u \in Units |-> {}]
    /\ pauses = [u \in Units |-> 0]
    /\ nfail = [u \in Units |-> 0]
    /\ nreset = [u \in Units |-> 0]
    /\ err = [u \in Units |-> "none"]
    /\ resume0 = [u \in Units |-> IF Ids(store[u]) = {} THEN None ELSE Max(Ids(store[u]))]
    /\ aborted = [u \in Units |-> FALSE]
    /\ rate = MaxPauses
    /\ faults = MaxStoreFaults
    /\ fatals = MaxFatal
    /\ run = 1

\* ----------------------------------------------------------------- actions
Terminal == {"done", "failed"}

\* faulty variant: an exception in one thread ends the whole process
Raise_process(u, exception) ==
    /\ pc' = [v \in Units |-> "failed"]
    /\ err' = [err EXCEPT ![u] = exception]

\* an exception leaves DataRetrievalThread.run: that thread ends, no other does
Raise(u, exception) ==
    /\ pc' = [pc EXCEPT ![u] = "failed"]
    /\ err' = [err EXCEPT ![u] = exception]

\* get_user_tweets, lines 177-194: the query for the latest stored id and the
\* first cursor
Locate(u) ==
    /\ pc[u] = "start"
    /\ LET docs == find_docs(store[u], u, 1)
           id == LastId(docs)
       IN  /\ latest_tweet_id' = [latest_tweet_id EXCEPT ![u] = id]
           /\ since_tweet_id' = [since_tweet_id EXCEPT ![u] = SinceArgument(id, CursorObject)]
           /\ cursor' = [cursor EXCEPT ![u] = NewCursor(id, None)]
           /\ requests' = [requests EXCEPT ![u] = {[since_id |-> id, max_id |-> None]}]
    /\ store0' = [store0 EXCEPT ![u] = store[u]]
    /\ pc' = [pc EXCEPT ![u] = "next"]
    /\ UNCHANGED <<resume0, aborted, provider, max_id_inclusive, store, mongo_client, closed, tweet,
                   mongo_col, json_data, yielded, written, pauses, nfail, nreset, err,
                   budgets, run>>

\* the query meets NetworkTimeout / ConnectionFailure while line 185 iterates
\* the result: find_docs and get_user_tweets catch nothing
LocateTransient(u) ==
    /\ pc[u] = "start"
    /\ faults > 0
    /\ faults' = faults - 1
    /\ Raise(u, "ConnectionFailure")
    /\ UNCHANGED <<resume0, aborted, store0, provider, max_id_inclusive, store, mongo_client, closed,
                   latest_tweet_id, since_tweet_id, cursor, tweet, mongo_col, json_data,
                   yielded, written, requests, pauses, nfail, nreset, rate, fatals, run>>

\* the query runs on a client another thread's reset_client has closed
LocateClosed(u) ==
    /\ pc[u] = "start"
    /\ mongo_client \in closed
    /\ Raise(u, "InvalidOperation")
    /\ UNCHANGED <<resume0, aborted, store0, provider, max_id_inclusive, store, mongo_client, closed,
                   latest_tweet_id, since_tweet_id, cursor, tweet, mongo_col, json_data,
                   yielded, written, requests, pauses, nfail, nreset, budgets, run>>

\* retrieve_user_tweet, lines 143-144: cursor.next() delivers a tweet, which is
\* yielded; the loop body of get_user_tweets (195-196) starts the write
Next_Item(u) ==
    /\ pc[u] = "next"
    /\ Remaining(u, cursor[u]) # {}
    /\ LET i == Max(Remaining(u, cursor[u]))
       IN  /\ tweet' = [tweet EXCEPT ![u] = i]
           /\ cursor' = [cursor EXCEPT ![u].pos = i]
           /\ yielded' = [yielded EXCEPT ![u] = Append(@, i)]
           /\ json_data' = [json_data EXCEPT ![u] = Doc(u, i)]
    /\ pc' = [pc EXCEPT ![u] = "write"]
    /\ UNCHANGED <<resume0, aborted, store0, provider, max_id_inclusive, store, mongo_client, closed,
                   latest_tweet_id, since_tweet_id, mongo_col, written, requests, pauses,
                   nfail, nreset, err, budgets, run>>

\* the exceptions of cursor.next() that retrieve_user_tweet names
ProviderErrors == {"RateLimitError", "TweepError"}

\* faulty variant: only the rate limit is handled, a TweepError leaves the generator
OnProviderError_surfaced(kind) == IF kind = "RateLimitError" THEN "sleep" ELSE "failed"

\* where the handler of an exception of cursor.next() leaves the generator:
\* both handlers (lines 145-152, 153-161) end in time.sleep
OnProviderError(kind) == "sleep"

\* lines 145-161: cursor.next() raises RateLimitError or TweepError; the two
\* handlers are the same
Next_Error(u) ==
    /\ pc[u] = "next"
    /\ rate > 0
    /\ rate' = rate - 1
    /\ cursor' = [cursor EXCEPT ![u] = ResumeCursor(u)]
    /\ requests' = [requests EXCEPT ![u] =
                      @ \cup {[since_id |-> ResumeCursor(u).since_id,
                               max_id |-> ResumeCursor(u).max_id]}]
    /\ pauses' = [pauses EXCEPT ![u] = @ + 1]
    /\ \E kind \in ProviderErrors : pc' = [pc EXCEPT ![u] = OnProviderError(kind)]
    /\ UNCHANGED <<resume0, aborted, store0, provider, max_id_inclusive, store, mongo_client, closed,
                   latest_tweet_id, since_tweet_id, tweet, mongo_col, json_data, yielded,
                   written, nfail, nreset, err, faults, fatals, run>>

\* time.sleep(15 * 60) returns (lines 152, 161)
Wake(u) ==
    /\ pc[u] = "sleep"
    /\ pc' = [pc EXCEPT ![u] = "next"]
    /\ UNCHANGED <<provider, max_id_inclusive, store, mongo_client, closed,
                   latest_tweet_id, since_tweet_id, cursor, tweet, mongo_col, json_data,
                   history, budgets, run>>

\* lines 162-164: StopIteration; the generator returns, the for loop of
\* get_user_tweets ends and the thread exits
Next_Stop(u) ==
    /\ pc[u] = "next"
    /\ Remaining(u, cursor[u]) = {}
    /\ pc' = [pc EXCEPT ![u] = "done"]
    /\ UNCHANGED <<provider, max_id_inclusive, store, mongo_client, closed,
                   latest_tweet_id, since_tweet_id, cursor, tweet, mongo_col, json_data,
                   history, budgets, run>>

\* write_doc_to_collection, lines 100-101: the collection handle is taken
\* from the current client
WriteGet(u) ==
    /\ pc[u] = "write"
    /\ mongo_col' = [mongo_col EXCEPT ![u] = mongo_client]
    /\ pc' = [pc EXCEPT ![u] = "insert"]
    /\ UNCHANGED <<provider, max_id_inclusive, store, mongo_client, closed,
                   latest_tweet_id, since_tweet_id, cursor, tweet, json_data,
                   history, budgets, run>>

\* faulty variant: the document is kept for a later batch, not stored
insert_one_deferred(col, doc) == col

\* insert_one adds the document it is given; it looks for no document with
\* the same id
insert_one(col, doc) == Append(col, doc)

\* line 105 succeeds
InsertOK(u) ==
    /\ pc[u] = "insert"
    /\ store' = [store EXCEPT ![u] = insert_one(@, json_data[u])]
    /\ written' = [written EXCEPT ![u] = Append(@, json_data[u].id)]
    /\ pc' = [pc EXCEPT ![u] = "next"]
    /\ UNCHANGED <<resume0, aborted, store0, provider, max_id_inclusive, mongo_client, closed,
                   latest_tweet_id, since_tweet_id, cursor, tweet, mongo_col, json_data,
                   yielded, requests, pauses, nfail, nreset, err, budgets, run>>

\* faulty variant: the write is retried without reset_client
AfterTransient_noreset(u) == "write"

\* where a transient failure of insert_one takes the call (lines 106-111)
AfterTransient(u) == "reset_close"

\* line 105 raises NetworkTimeout or ConnectionFailure; both handlers are the same
InsertTransient(u) ==
    /\ pc[u] = "insert"
    /\ faults > 0
    /\ faults' = faults - 1
    /\ nfail' = [nfail EXCEPT ![u] = @ + 1]
    /\ pc' = [pc EXCEPT ![u] = AfterTransient(u)]
    /\ UNCHANGED <<resume0, aborted, store0, provider, max_id_inclusive, store, mongo_client, closed,
                   latest_tweet_id, since_tweet_id, cursor, tweet, mongo_col, json_data,
                   yielded, written, requests, pauses, nreset, err, rate, fatals, run>>

\* faulty variant: the handlers catch every exception, so the error is
\* answered by reset_client and a retry
InsertFatal_retried(u) ==
    /\ pc[u] = "insert"
    /\ fatals > 0
    /\ fatals' = fatals - 1
    /\ nfail' = [nfail EXCEPT ![u] = @ + 1]
    /\ pc' = [pc EXCEPT ![u] = "reset_close"]
    /\ UNCHANGED <<resume0, aborted, store0, provider, max_id_inclusive, store, mongo_client, closed,
                   latest_tweet_id, since_tweet_id, cursor, tweet, mongo_col, json_data,
                   yielded, written, requests, pauses, nreset, err, rate, faults, run>>

\* line 105 raises an error no handler names
InsertFatal(u) ==
    /\ pc[u] = "insert"
    /\ fatals > 0
    /\ fatals' = fatals - 1
    /\ Raise(u, "StoreFatalError")
    /\ UNCHANGED <<resume0, aborted, store0, provider, max_id_inclusive, store, mongo_client, closed,
                   latest_tweet_id, since_tweet_id, cursor, tweet, mongo_col, json_data,
                   yielded, written, requests, pauses, nfail, nreset, rate, faults, run>>

\* line 105 runs on a client another thread's reset_client has closed
InsertClosed(u) ==
    /\ pc[u] = "insert"
    /\ mongo_col[u] \in closed
    /\ Raise(u, "InvalidOperation")
    /\ UNCHANGED <<resume0, aborted, store0, provider, max_id_inclusive, store, mongo_client, closed,
                   latest_tweet_id, since_tweet_id, cursor, tweet, mongo_col, json_data,
                   yielded, written, requests, pauses, nfail, nreset, budgets, run>>

\* reset_client, line 90: close_client closes the current client
ResetClose(u) ==
    /\ pc[u] = "reset_close"
    /\ closed' = closed \cup {mongo_client}
    /\ pc' = [pc EXCEPT ![u] = "reset_new"]
    /\ UNCHANGED <<provider, max_id_inclusive, store, mongo_client,
                   latest_tweet_id, since_tweet_id, cursor, tweet, mongo_col, json_data,
                   history, budgets, run>>

\* reset_client, line 91, and the recursive call of lines 108 / 111 with the
\* same arguments
ResetNew(u) ==
    /\ pc[u] = "reset_new"
    /\ mongo_client' = mongo_client + 1
    /\ nreset' = [nreset EXCEPT ![u] = @ + 1]
    /\ pc' = [pc EXCEPT ![u] = "write"]
    /\ UNCHANGED <<resume0, aborted, store0, provider, max_id_inclusive, store, closed,
                   latest_tweet_id, since_tweet_id, cursor, tweet, mongo_col, json_data,
                   yielded, written, requests, pauses, nfail, err, budgets, run>>

\* the run of u ended by an exception after it had written some, not all, of
\* the items that were newer than what it found stored
EndedPartWay(u) ==
    /\ pc[u] = "failed"
    /\ Len(written[u]) >= 1
    /\ \E i \in provider[u] :
          /\ i \notin Ids(store[u])
          /\ \A k \in 1..Len(store0[u]) : store0[u][k].id < i

\* the script is executed again once every thread of the last execution has
\* ended: a new process, a new MongoServer, the same collections
Rerun ==
    /\ \A u \in Units : pc[u] \in Terminal
    /\ run < MaxRuns
    /\ run' = run + 1
    /\ mongo_client' = 1
    /\ closed' = {}
    /\ pc' = [u \in Units |-> "start"]
    /\ latest_tweet_id' = [u \in Units |-> None]
    /\ since_tweet_id' = [u \in Units |-> None]
    /\ cursor' = [u \in Units |-> NewCursor(None, None)]
    /\ tweet' = [u \in Units |-> None]
    /\ mongo_col' = [u \in Units |-> 0]
    /\ json_data' = [u \in Units |-> Doc(u, None)]
    /\ store0' = store
    /\ yielded' = [u \in Units |-> <<>>]
    /\ written' = [u \in Units |-> <<>>]
    /\ requests' = [u \in Units |-> {}]
    /\ pauses' = [u \in Units |-> 0]
    /\ nfail' = [u \in Units |-> 0]
    /\ nreset' = [u \in Units |-> 0]
    /\ err' = [u \in Units |-> "none"]
    /\ aborted' = [u \in Units |-> aborted[u] \/ EndedPartWay(u)]
    /\ UNCHANGED <<provider, max_id_inclusive, store, budgets, resume0>>

\* faulty variant: time.sleep holds every thread of the process, so no thread
\* steps while a sibling sleeps
Step_blocking(u) ==
    /\ \A v \in Units \ {u} : pc[v] # "sleep"
    /\ \/ Locate(u)
       \/ LocateTransient(u)
       \/ LocateClosed(u)
       \/ Next_Item(u)
       \/ Next_Error(u)
       \/ Wake(u)
       \/ Next_Stop(u)
       \/ WriteGet(u)
       \/ InsertOK(u)
       \/ InsertTransient(u)
       \/ InsertFatal(u)
       \/ InsertClosed(u)
       \/ ResetClose(u)
       \/ ResetNew(u)

\* DataRetrievalThread.run of thread u: one step of get_user_tweets
Step(u) ==
    \/ Locate(u)
    \/ LocateTransient(u)
    \/ LocateClosed(u)
    \/ Next_Item(u)
    \/ Next_Error(u)
    \/ Wake(u)
    \/ Next_Stop(u)
    \/ WriteGet(u)
    \/ InsertOK(u)
    \/ InsertTransient(u)
    \/ InsertFatal(u)
    \/ InsertClosed(u)
    \/ ResetClose(u)
    \/ ResetNew(u)

Next ==
    \/ \E u \in Units : Step(u)
    \/ Rerun

Spec == Init /\ [][Next]_vars

\* one execution of the script
RunOnce == \E u \in Units : Step(u)

\* the threads are scheduled by the operating system: none that can take a
\* step is held back for ever
FairSpec == Init /\ [][RunOnce]_vars /\ \A u \in Units : WF_vars(Step(u))

\* ------------------------------------------------------------------ claims
\* the greatest id of the collection as the run found it (None if it was empty)
MaxStored(u) == IF Ids(store0[u]) = {} THEN None ELSE Max(Ids(store0[u]))

\* the provider's items newer than what the run found stored
Newer(u) == {i \in provider[u] : i > MaxStored(u)}

NoDuplicates(s) == \A j, k \in 1..Len(s) : j # k => s[j] # s[k]

\* the resume query of this run has returned and the first cursor exists
Located(u) == requests[u] # {}

\* C1: a run on a collection with greatest id M asks the provider with lower
\* bound M in every walk it creates, also after pauses, and writes no item
\* with an id <= M.
C1_ResumeCorrectness ==
    \A u \in Units :
        Located(u) =>
            /\ \A r \in requests[u] : r.since_id = MaxStored(u)
            /\ \A k \in 1..Len(written[u]) : written[u][k] > MaxStored(u)

C3_NoReemission == \A u \in Units : NoDuplicates(yielded[u])

\* C4: no two documents of a collection share an id.
C4_Uniqueness ==
    \A u \in Units : \A j, k \in 1..Len(store[u]) :
        j # k => store[u][j].id # store[u][k].id

\* C5: a thread ended by a fatal store error neither cancels nor blocks the
\* others: the step that raises changes no other thread, a thread ends
\* "failed" only by its own exception, every other thread goes on to its end,
\* and one that is done has all the newer items of its feed stored.
C5_FleetIsolation ==
    /\ \A u \in Units : \A v \in Units \ {u} :
          (err[u] = "StoreFatalError") ~> (pc[v] = "done" \/ err[v] # "none")
    /\ [](\A v \in Units : pc[v] = "failed" => err[v] # "none")
    /\ [](\A v \in Units : pc[v] = "done" => Newer(v) \subseteq Ids(store[v]))
    /\ [][\A u \in Units :
             (err[u] = "none" /\ err'[u] = "StoreFatalError") =>
                 \A v \in Units \ {u} :
                     /\ pc'[v] = pc[v] /\ store'[v] = store[v]
                     /\ cursor'[v] = cursor[v] /\ tweet'[v] = tweet[v]]_vars

\* one thread ended by the fatal error, another done with items written
C5_Witness ==
    \E u \in Units : \E v \in Units \ {u} :
        /\ err[u] = "StoreFatalError" /\ pc[u] = "failed"
        /\ pc[v] = "done" /\ Len(written[v]) > 0

\* C6: with no provider error the walker returns once the provider has no
\* more items, having yielded exactly the items newer than the lower bound,
\* each once, newest first.
C6_Termination ==
    /\ \A u \in Units :
          (pc[u] = "next" /\ pauses[u] = 0) ~> (pc[u] \in Terminal \/ pauses[u] > 0)
    /\ [](\A u \in Units :
             (pc[u] = "done" /\ pauses[u] = 0) => yielded[u] = Descending(Newer(u)))

\* a walker that returned without a pause after yielding two items
C6_Witness ==
    \E u \in Units : pc[u] = "done" /\ pauses[u] = 0 /\ Len(yielded[u]) >= 2

\* C7: a run that meets no provider and no store failure ends with the
\* collection it found, unchanged, followed by exactly the provider's items
\* newer than the greatest id it found.
C7_ExactIncrement ==
    \A u \in Units :
        (pc[u] = "done" /\ pauses[u] = 0 /\ nfail[u] = 0) =>
            LET new == Descending(Newer(u))
            IN  store[u] = store0[u] \o [k \in 1..Len(new) |-> Doc(u, new[k])]

\* a clean run that found documents stored and added two newer ones
C7_Witness ==
    \E u \in Units :
        /\ pc[u] = "done" /\ pauses[u] = 0 /\ nfail[u] = 0
        /\ Len(store0[u]) > 0 /\ Len(written[u]) = 2

\* C8: the resume point is None for an empty collection and the greatest
\* stored id otherwise, and the first request carries it as its only bound.
C8_Bootstrap ==
    \A u \in Units :
        Located(u) =>
            /\ latest_tweet_id[u] =
                  (IF Len(store0[u]) = 0 THEN None
                   ELSE CHOOSE i \in Ids(store0[u]) : \A j \in Ids(store0[u]) : j <= i)
            /\ [since_id |-> latest_tweet_id[u], max_id |-> None] \in requests[u]
            /\ pauses[u] = 0 =>
                  requests[u] = {[since_id |-> latest_tweet_id[u], max_id |-> None]}

\* one run started on an empty collection, another on a collection of two
C8_Witness ==
    /\ \E u \in Units :
          /\ Located(u) /\ Len(store0[u]) = 0
          /\ requests[u] = {[since_id |-> None, max_id |-> None]}
    /\ \E v \in Units : Located(v) /\ Len(store0[v]) >= 2 /\ latest_tweet_id[v] >= 2

InWrite == {"write", "insert", "reset_close", "reset_new"}

C10_QueryRetry ==
    \A u \in Units : ~(pc[u] = "failed" /\ err[u] = "ConnectionFailure")

\* C11: a non-transient error of the insert is not retried and resets no
\* connection: the step that meets it ends the thread with that error, leaves
\* the client and every collection as they are, and the thread takes no
\* further step in this execution; what the run wrote stays stored.
C11_FatalStoreError ==
    [][/\ fatals' # fatals =>
             \E u \in Units :
                 /\ pc[u] = "insert" /\ pc'[u] = "failed"
                 /\ err'[u] = "StoreFatalError"
                 /\ store' = store /\ written' = written
                 /\ mongo_client' = mongo_client /\ closed' = closed
                 /\ nreset' = nreset /\ nfail' = nfail
       /\ \A u \in Units :
             (err[u] = "StoreFatalError" /\ run' = run) =>
                 /\ pc'[u] = "failed" /\ err'[u] = err[u]
                 /\ store'[u] = store[u] /\ written'[u] = written[u]
                 /\ store[u] = store0[u] \o [k \in 1..Len(written[u]) |-> Doc(u, written[u][k])]
      ]_vars

\* a thread ended by the fatal error after it had written an item, while
\* another thread has since moved on
C11_Witness ==
    \E u \in Units : \E v \in Units \ {u} :
        /\ err[u] = "StoreFatalError" /\ pc[u] = "failed"
        /\ Len(written[u]) >= 1 /\ Len(store[u]) > Len(store0[u])
        /\ pc[v] = "done"

\* C12: an error signal that arrives after at least one item was yielded
\* makes the walker pause and continue with a fresh walk whose lower bound is
\* the lower bound of the run's first walk and whose upper bound is the id
\* of the item yielded last.
C12_ResumeBounds ==
    [][\A u \in Units :
          (pauses'[u] = pauses[u] + 1 /\ tweet[u] # None) =>
              /\ pc'[u] = "sleep"
              /\ cursor'[u] = NewCursor(latest_tweet_id[u], yielded[u][Len(yielded[u])])
      ]_vars

\* C13: an error signal that arrives before any item was yielded makes the
\* walker pause and go on with the walk it had: the cursor and its bounds are
\* unchanged, no further walk is created, and waking changes neither.
C13_PauseBeforeFirstItem ==
    [][\A u \in Units :
          /\ (pauses'[u] = pauses[u] + 1 /\ tweet[u] = None) =>
                /\ pc'[u] = "sleep"
                /\ cursor'[u] = cursor[u]
                /\ requests'[u] = requests[u]
                /\ tweet'[u] = None
          /\ (pc[u] = "sleep" /\ pc'[u] = "next") =>
                /\ cursor'[u] = cursor[u]
                /\ requests'[u] = requests[u]
      ]_vars

\* a walker that paused before its first item and then yielded from the
\* walk it started with
C13_Witness ==
    \E u \in Units :
        /\ pauses[u] >= 1 /\ Len(yielded[u]) >= 1
        /\ requests[u] = {[since_id |-> latest_tweet_id[u], max_id |-> None]}

\* C14: an error signal of the provider, of either kind, only makes the
\* walker pause: the step changes nothing but the walker's cursor and ends no
\* thread, a paused walker goes back to asking the provider, the walker itself
\* never ends a thread with an error, and it returns only when the cursor has
\* nothing more to deliver.
C14_ProviderErrorsNotSurfaced ==
    [][/\ rate' # rate =>
             \E u \in Units :
                 /\ pc[u] = "next" /\ pc'[u] = "sleep"
                 /\ err' = err /\ yielded' = yielded /\ store' = store
                 /\ \A v \in Units \ {u} : pc'[v] = pc[v]
       /\ \A u \in Units :
             /\ (pc[u] = "sleep" /\ pc'[u] # "sleep") => pc'[u] = "next"
             /\ (pc[u] \in {"next", "sleep"}) => pc'[u] # "failed"
             /\ (pc[u] # "done" /\ pc'[u] = "done") =>
                   (pc[u] = "next" /\ Remaining(u, cursor[u]) = {})
      ]_vars

\* a walker that paused twice, the second time after yielding, and returned
C14_Witness ==
    \E u \in Units :
        /\ pc[u] = "done" /\ err[u] = "none"
        /\ pauses[u] >= 2 /\ Cardinality(requests[u]) >= 2

\* C15: within one run the items are written in the order the walker yields
\* them, and the ids written are strictly monotonic (newest first) over the
\* whole run, pauses and resumed walks included.
C15_WriteOrder ==
    \A u \in Units :
        /\ Len(written[u]) <= Len(yielded[u])
        /\ written[u] = SubSeq(yielded[u], 1, Len(written[u]))
        /\ \A j, k \in 1..Len(written[u]) : j < k => written[u][j] > written[u][k]

\* C16: every yielded item is written before the walker is asked for the
\* next one: at most one yielded item of a run, the one being written, is not
\* yet stored, and every item yielded before it is in the collection, whatever
\* happens next.
C16_StreamingWrite ==
    \A u \in Units :
        /\ Len(written[u]) <= Len(yielded[u])
        /\ Len(yielded[u]) <= Len(written[u]) + 1
        /\ written[u] = SubSeq(yielded[u], 1, Len(written[u]))
        /\ store[u] = store0[u] \o [k \in 1..Len(written[u]) |-> Doc(u, written[u][k])]
        /\ pc[u] \in {"next", "sleep", "done"} => Len(yielded[u]) = Len(written[u])
        /\ Len(yielded[u]) > Len(written[u]) =>
              /\ pc[u] \in InWrite \cup {"failed"}
              /\ json_data[u] = Doc(u, yielded[u][Len(yielded[u])])

\* the second item of a run is being written, the first is stored
C16_Witness ==
    \E u \in Units :
        /\ pc[u] = "insert"
        /\ Len(yielded[u]) = 2 /\ Len(written[u]) = 1
        /\ yielded[u][1] \in Ids(store[u]) /\ yielded[u][2] \notin Ids(store[u])

\* C17: when a run was ended part-way by an exception, a later run that
\* completes without failure leaves every provider item newer than what was
\* stored at the outset in the collection.
C17_SafeResume ==
    \A u \in Units :
        (aborted[u] /\ pc[u] = "done" /\ pauses[u] = 0 /\ nfail[u] = 0) =>
            \A i \in provider[u] : i > resume0[u] => i \in Ids(store[u])

\* C18: a write of one thread that is under way while another thread's
\* reset_client closes the shared client is not ended by an error of the
\* closed client: no thread ends with InvalidOperation while the item it
\* yielded last is still unwritten.
C18_SharedGateway ==
    \A u \in Units :
        ~(/\ pc[u] = "failed" /\ err[u] = "InvalidOperation"
          /\ Len(yielded[u]) > Len(written[u]))

\* C19: while one thread sleeps in retrieve_user_tweet, every other thread
\* that has not ended has a step it can take; a step of one thread leaves the
\* collection of every other user as it was, and every document of a user's
\* collection was written for that user.
C19_PauseLocality ==
    /\ [](\A u \in Units : \A v \in Units \ {u} :
            (pc[u] = "sleep" /\ pc[v] \notin Terminal) => ENABLED Step(v))
    /\ [](\A u \in Units : \A k \in 1..Len(store[u]) : store[u][k].screen_name = u)
    /\ [][\A u \in Units : Step(u) =>
            \A v \in Units \ {u} : store'[v] = store[v]]_vars

\* one thread sleeps while the other stands before its insert_one and can
\* take it
C19_Witness ==
    \E u \in Units : \E v \in Units \ {u} :
        /\ pc[u] = "sleep"
        /\ pc[v] = "insert"
        /\ ENABLED InsertOK(v)

====
